---- MODULE Spec2Model ----
(***************************************************************************)
(* Request handlers of a Kademlia DHT node (handlers.go): GET_VALUE,       *)
(* PUT_VALUE, FIND_NODE, GET_PROVIDERS, ADD_PROVIDER and PING, run by      *)
(* concurrent handler goroutines over a shared datastore, the striped put  *)
(* locks, the provider index, the address book and the node's clock.       *)
(*                                                                         *)
(* Every handler goroutine is an entry of h, a record of the handler's     *)
(* local variables under the names the source gives them, with its         *)
(* position in pc.  One action is one step of a handler between two        *)
(* accesses to shared state (datastore, lock, clock).                      *)
(***************************************************************************)
EXTENDS Integers, Sequences, FiniteSets, TLC

VARIABLES
    datastore,        \* dht.datastore: datastore key -> stored bytes or NotFound
    stripedPutLocks,  \* dht.stripedPutLocks: the set of indices whose mutex is held
    now,              \* the node's clock (time.Now), in abstract time units
    h,                \* handler goroutines: locals and position of each
    started,          \* number of requests received so far (bounds the run)
    routingTable,     \* routing-table collaborator: peers ordered by distance to the key
    peerstore,        \* dht.peerstore: peer -> set of known addresses
    connectedness,    \* dht.host.Network().Connectedness: peer -> state
    providers,        \* dht.providers: content identifier -> its providers, in order
    accepted,         \* history: key -> values handlePutValue has persisted there
    lastPut           \* history: key -> the last successful PUT_VALUE there

vars == <<datastore, stripedPutLocks, now, h, started, routingTable, peerstore,
          connectedness, accepted, lastPut, providers>>

-----------------------------------------------------------------------------
(* Bounds of the model *)

\* number of concurrent handler goroutines
NumHandlers == 2
\* number of requests received in one run
MaxRequests == 3
\* the clock runs from 0 to MaxTime
MaxTime == 2
\* record values are the sequence numbers 0..MaxSeq (and one invalid value)
MaxSeq == 1
\* number of provider-peer records in an ADD_PROVIDER request
MaxProviderPeers == 2

(* Program constants *)

\* MaxRecordAge (36 hours in the repository), in the clock's units
MaxRecordAge == 1
\* var CloserPeerCount = KValue (20 in the repository), scaled to the peer set
CloserPeerCount == 2
\* len(dht.stripedPutLocks): one mutex per value of a byte
NumStripes == 256

Handlers == 1 .. NumHandlers

-----------------------------------------------------------------------------
(* Nil pointers, errors, byte strings *)

Nil == [nil |-> TRUE]
NoErr == "<nil>"

\* DHT keys are byte strings: the empty key, and two keys that share the
\* trailing byte 7.
Keys == { <<>>, <<7>>, <<3, 7>> }

\* Record values: a sequence number, or a value the validator rejects.
InvalidValue == 0 - 1
Values == (0 .. MaxSeq) \cup {InvalidValue}

-----------------------------------------------------------------------------
(* convertToDsKey: ds.NewKey(base32.RawStdEncoding.EncodeToString(s)) *)

Alphabet == << "A","B","C","D","E","F","G","H","I","J","K","L","M","N","O","P",
               "Q","R","S","T","U","V","W","X","Y","Z","2","3","4","5","6","7" >>

Pow2(n) == IF n = 0 THEN 1 ELSE IF n = 1 THEN 2 ELSE IF n = 2 THEN 4
           ELSE IF n = 3 THEN 8 ELSE IF n = 4 THEN 16 ELSE IF n = 5 THEN 32
           ELSE IF n = 6 THEN 64 ELSE 128

\* the 8 bits of a byte, most significant first
ByteBits(b) == [i \in 1 .. 8 |-> (b \div Pow2(8 - i)) % 2]

RECURSIVE BytesToBits(_)
BytesToBits(s) == IF s = <<>> THEN <<>>
                  ELSE ByteBits(Head(s)) \o BytesToBits(Tail(s))

\* one base-32 digit from up to five bits, the missing low bits being zero
Quintet(bits) ==
    LET bit(i) == IF i <= Len(bits) THEN bits[i] ELSE 0
    IN  Alphabet[16 * bit(1) + 8 * bit(2) + 4 * bit(3) + 2 * bit(4) + bit(5) + 1]

RECURSIVE EncodeBits(_)
EncodeBits(bits) ==
    IF bits = <<>> THEN ""
    ELSE IF Len(bits) <= 5 THEN Quintet(bits)
    ELSE Quintet(SubSeq(bits, 1, 5)) \o EncodeBits(SubSeq(bits, 6, Len(bits)))

\* base32.RawStdEncoding.EncodeToString: unpadded RFC 4648 base 32
EncodeToString(s) == EncodeBits(BytesToBits(s))

\* ds.NewKey prefixes the "/" of a datastore path
convertToDsKey(s) == "/" \o EncodeToString(s)

DsKeys == { convertToDsKey(k) : k \in Keys }

-----------------------------------------------------------------------------
(* Records, their serialisation, receipt times *)

\* u.FormatRFC3339(t): the RFC 3339 text of an instant
FormatRFC3339(t) == [text |-> "rfc3339", instant |-> t]
\* the empty string (no receipt time) and a string that is no RFC 3339 time
EmptyString == [text |-> "", instant |-> 0]
JunkString == [text |-> "junk", instant |-> 0]

\* time.Time{}: the zero time, far before every instant of the clock
ZeroTime == 0 - 1000

\* u.ParseRFC3339(s): the instant, or an error and the zero time
ParseRFC3339(s) ==
    IF s.text = "rfc3339" THEN [err |-> NoErr, t |-> s.instant]
    ELSE [err |-> "parse error", t |-> ZeroTime]

\* recpb.Record
Record(k, v, tr) == [key |-> k, value |-> v, timeReceived |-> tr]

\* proto.Marshal(rec): the bytes of a record
Marshal(rec) == << "recpb.Record", rec.key, rec.value, rec.timeReceived >>
\* bytes in the datastore that are no serialised record
Garbage == << "garbage" >>
\* proto.Unmarshal(buf, rec)
Unmarshal(buf) ==
    IF buf[1] = "recpb.Record"
    THEN [err |-> NoErr, rec |-> Record(buf[2], buf[3], buf[4])]
    ELSE [err |-> "unmarshal error", rec |-> Nil]

\* the datastore's answer for a key it does not hold (ds.ErrNotFound)
NotFound == << "ds.ErrNotFound" >>

-----------------------------------------------------------------------------
(* The validator collaborator (dht.Validator).  The records of the model   *)
(* carry a sequence number as their value; the validator accepts every     *)
(* sequence number and prefers the higher one, the first on a tie.         *)

\* dht.Validator.Validate(key, value): nil, or the reason of the rejection
Validate(key, value) == IF value >= 0 THEN NoErr ELSE "invalid record"

\* dht.Validator.Select(key, recs): the index (from 0) of the value to keep
Select(key, recs) == IF recs[2] > recs[1] THEN 1 ELSE 0

-----------------------------------------------------------------------------
(* Messages and handler goroutines *)

\* pb.Message: a request, and the response built by pb.NewMessage
Message(t, k, r, cp) ==
    [type |-> t, key |-> k, record |-> r, closerPeers |-> cp, providerPeers |-> <<>>]

\* a handler goroutine that is not running
Idle == [pc |-> "idle", type |-> "", p |-> "", req |-> Nil, pmes |-> Nil,
         ctxDone |-> FALSE,
         dskey |-> "", indexForLock |-> 0, existing |-> Nil, data |-> <<>>,
         rec |-> Nil, resp |-> Nil, err |-> NoErr,
         wrote |-> FALSE, cancelledBeforePut |-> FALSE,
         after |-> Nil, evict |-> "none", readAt |-> 0, lost |-> Nil,
         c |-> <<>>, has |-> FALSE, hasErr |-> NoErr, providers |-> <<>>,
         indexed |-> <<>>, pinfos |-> <<>>, calls |-> <<>>, ignored |-> 0]

\* the handler returns (resp, err): its locals die, what it returned stays
\* (and, for the properties, the history fields wrote, cancelledBeforePut,
\* after, evict and lost, the request req a handler rejected at once, the
\* existing record a PUT_VALUE went on to replace, what a GET_PROVIDERS got
\* from datastore.Has and the provider index (has, hasErr, indexed), and the
\* calls an ADD_PROVIDER made and the number of records it ignored)
Returned(g, resp, err) ==
    [g EXCEPT !.pc = "done", !.resp = resp, !.err = err, !.pmes = Nil,
              !.dskey = "", !.indexForLock = 0, !.existing = Nil,
              !.data = <<>>, !.rec = Nil, !.ctxDone = FALSE, !.readAt = 0,
              !.c = <<>>, !.providers = <<>>, !.pinfos = <<>>]

Running(i) == h[i].pc \notin {"idle", "done"}

-----------------------------------------------------------------------------
(* handlePutValue *)

\* bytes.Equal
BytesEqual(a, b) == a = b

\* cleanRecord: rec.TimeReceived = ""
cleanRecord(rec) == [rec EXCEPT !.timeReceived = EmptyString]

\* (mutant) the key of the record is not compared with the key of the message
PutRequestErrNoKeyCheck(pmes) ==
    IF pmes.record = Nil THEN "nil record" ELSE NoErr

\* The checks of the request before the record is looked at: the error the
\* handler returns, or NoErr.
PutRequestErr(pmes) ==
    IF pmes.record = Nil THEN "nil record"
    ELSE IF ~BytesEqual(pmes.key, pmes.record.key)
         THEN "put key doesn't match record key"
         ELSE NoErr

\* (mutant) the lock is chosen by the first byte of the key
IndexForLockFirstByte(key) == IF Len(key) = 0 THEN 0 ELSE key[1] % NumStripes

\* the index of the striped lock of a key: its last byte, 0 for the empty key
IndexForLock(key) == IF Len(key) = 0 THEN 0 ELSE key[Len(key)] % NumStripes

\* PUT_VALUE requests: any key, with no record, a record of any key, or a
\* record of the key with any value, with or without a receipt time set by
\* the sender (none, one far in the future, one far in the past)
ClientStamps == {EmptyString, FormatRFC3339(MaxTime + 5), FormatRFC3339(0 - 5)}
PutRecords(k) ==
    {Nil} \cup { Record(rk, 0, EmptyString) : rk \in Keys }
          \cup { Record(k, InvalidValue, EmptyString) }
          \cup { Record(k, v, tr) : v \in 0 .. MaxSeq, tr \in ClientStamps }
PutRequests ==
    UNION { { Message("PUT_VALUE", k, r, <<>>) : r \in PutRecords(k) } : k \in Keys }

\* (mutant) the record is not validated
PutValidateErrSkipped(rec) == NoErr

\* err = dht.Validator.Validate(string(rec.GetKey()), rec.GetValue())
PutValidateErr(rec) == Validate(rec.key, rec.value)

\* a request is served by the first handler goroutine that is free
Free(i) == /\ ~Running(i)
           /\ \A j \in Handlers : j < i => Running(j)

\* The handler is invoked and runs up to lk.Lock(): the checks of the
\* request, cleanRecord, Validator.Validate, the choice of the lock.
handlePutValue(i, pmes) ==
    /\ Free(i)
    /\ started < MaxRequests
    /\ started' = started + 1
    /\ LET g == [Idle EXCEPT !.type = "PUT_VALUE"]
           e == PutRequestErr(pmes)
       IN  IF e # NoErr
           THEN h' = [h EXCEPT ![i] = [Returned(g, Nil, e) EXCEPT !.req = pmes]]
           ELSE LET rec == cleanRecord(pmes.record)
                    v == PutValidateErr(rec)
                IN  IF v # NoErr
                    THEN h' = [h EXCEPT ![i] = [Returned(g, Nil, v) EXCEPT !.req = pmes]]
                    ELSE h' = [h EXCEPT ![i] =
                                 [g EXCEPT !.pc = "lk.Lock",
                                           !.pmes = [pmes EXCEPT !.record = rec],
                                           !.dskey = convertToDsKey(rec.key),
                                           !.indexForLock = IndexForLock(rec.key)]]
    /\ UNCHANGED <<datastore, stripedPutLocks, now, routingTable, peerstore,
                   connectedness, accepted, lastPut, providers>>

\* (mutant) the mutex stays locked when the handler returns
UnlockNever(locks, index) == locks

\* the deferred lk.Unlock() of a handler that returns
Unlock(locks, index) == locks \ {index}

\* lk.Lock(): blocks while the mutex of the stripe is held
PutLock(i) ==
    /\ h[i].pc = "lk.Lock"
    /\ h[i].indexForLock \notin stripedPutLocks
    /\ stripedPutLocks' = stripedPutLocks \cup {h[i].indexForLock}
    /\ h' = [h EXCEPT ![i].pc = "getRecordFromDatastore"]
    /\ UNCHANGED <<datastore, now, started, routingTable, peerstore,
                   connectedness, accepted, lastPut, providers>>

\* (mutant) the record found is not validated
getRecordFromDatastoreNoValidate(buf, err) ==
    IF err = NoErr /\ buf = NotFound THEN [rec |-> Nil, err |-> NoErr]
    ELSE IF err # NoErr THEN [rec |-> Nil, err |-> err]
    ELSE LET u == Unmarshal(buf)
         IN  IF u.err # NoErr THEN [rec |-> Nil, err |-> NoErr]
             ELSE [rec |-> u.rec, err |-> NoErr]

\* getRecordFromDatastore on what datastore.Get returned (buf, err):
\* (nil, err) on a datastore error, (nil, nil) when nothing is found or what
\* is found does not parse or validate, else the record
getRecordFromDatastore(buf, err) ==
    IF err = NoErr /\ buf = NotFound THEN [rec |-> Nil, err |-> NoErr]
    ELSE IF err # NoErr THEN [rec |-> Nil, err |-> err]
    ELSE LET u == Unmarshal(buf)
         IN  IF u.err # NoErr THEN [rec |-> Nil, err |-> NoErr]
             ELSE IF Validate(u.rec.key, u.rec.value) # NoErr
                  THEN [rec |-> Nil, err |-> NoErr]
                  ELSE [rec |-> u.rec, err |-> NoErr]

\* what a datastore call may answer besides its result
DatastoreErrs == {NoErr, "datastore error"}

\* existing, err := dht.getRecordFromDatastore(dskey); the deferred
\* lk.Unlock() runs when the handler returns
PutGetExisting(i) ==
    /\ h[i].pc = "getRecordFromDatastore"
    /\ \E err \in DatastoreErrs :
         LET r == getRecordFromDatastore(datastore[h[i].dskey], err)
         IN  IF r.err # NoErr
             THEN /\ h' = [h EXCEPT ![i] = Returned(h[i], Nil, r.err)]
                  /\ stripedPutLocks' = Unlock(stripedPutLocks, h[i].indexForLock)
             ELSE /\ h' = [h EXCEPT ![i].pc = "Validator.Select",
                                    ![i].existing = r.rec,
                                    ![i].readAt = now]
                  /\ UNCHANGED stripedPutLocks
    /\ UNCHANGED <<datastore, now, started, routingTable, peerstore,
                   connectedness, accepted, lastPut, providers>>

\* (mutant) the index Select returns is ignored
IsOldRecordNever(i) == FALSE

\* if i != 0: the new record loses against the existing one
IsOldRecord(i) == i # 0

\* what Validator.Select may answer besides an index
SelectErrs == {NoErr, "select error"}

\* what proto.Marshal may answer besides the bytes
MarshalErrs == {NoErr, "marshal error"}

\* (mutant) the record is stored with the receipt time it came with
StampNever(rec, t) == rec

\* rec.TimeReceived = u.FormatRFC3339(time.Now())
Stamp(rec, t) == [rec EXCEPT !.timeReceived = FormatRFC3339(t)]

\* Validator.Select over (new, existing) when there is an existing record,
\* then rec.TimeReceived = u.FormatRFC3339(time.Now()) and proto.Marshal(rec)
PutSelect(i) ==
    /\ h[i].pc = "Validator.Select"
    /\ LET rec == h[i].pmes.record
           existing == h[i].existing
           stamped == Stamp(rec, now)
           fail(e) == /\ h' = [h EXCEPT ![i] = Returned(h[i], Nil, e)]
                      /\ stripedPutLocks' = Unlock(stripedPutLocks, h[i].indexForLock)
           proceed == \E err \in MarshalErrs :
                        IF err # NoErr THEN fail(err)
                        ELSE /\ h' = [h EXCEPT ![i].pc = "datastore.Put",
                                               ![i].pmes.record = stamped,
                                               ![i].data = Marshal(stamped)]
                             /\ UNCHANGED stripedPutLocks
       IN  IF existing # Nil
           THEN \E err \in SelectErrs :
                  IF err # NoErr THEN fail(err)
                  ELSE IF IsOldRecord(Select(rec.key, <<rec.value, existing.value>>))
                       THEN /\ h' = [h EXCEPT ![i] =
                                       [Returned(h[i], Nil, "old record")
                                          EXCEPT !.lost = [key |-> rec.key,
                                                           rec |-> existing,
                                                           at |-> h[i].readAt]]]
                            /\ stripedPutLocks' = Unlock(stripedPutLocks, h[i].indexForLock)
                       ELSE proceed
           ELSE proceed
    /\ UNCHANGED <<datastore, now, started, routingTable, peerstore,
                   connectedness, accepted, lastPut, providers>>

\* err = dht.datastore.Put(dskey, data); return pmes, err (and lk.Unlock())
PutStore(i) ==
    /\ h[i].pc = "datastore.Put"
    /\ \E err \in DatastoreErrs :
         LET key == h[i].pmes.key
             value == h[i].pmes.record.value
         IN  /\ h' = [j \in Handlers |->
                        IF j = i
                        THEN [Returned(h[i], h[i].pmes, err)
                                EXCEPT !.wrote = (err = NoErr),
                                       !.existing = h[i].existing,
                                       !.cancelledBeforePut = h[i].ctxDone]
                        ELSE IF err = NoErr /\ h[j].type = "GET_VALUE"
                                /\ Running(j) /\ h[j].pmes.key = key
                             THEN [h[j] EXCEPT !.after = Nil, !.lost = Nil]
                             ELSE IF err = NoErr /\ h[j].lost # Nil
                                     /\ h[j].lost.key = key
                             THEN [h[j] EXCEPT !.lost = Nil]
                             ELSE h[j]]
             /\ IF err = NoErr
                THEN /\ datastore' = [datastore EXCEPT ![h[i].dskey] = h[i].data]
                     /\ accepted' = [accepted EXCEPT ![key] = @ \cup {value}]
                     /\ lastPut' = [lastPut EXCEPT ![key] =
                                      [value |-> value,
                                       stamp |-> h[i].pmes.record.timeReceived.instant]]
                ELSE UNCHANGED <<datastore, accepted, lastPut>>
    /\ stripedPutLocks' = Unlock(stripedPutLocks, h[i].indexForLock)
    /\ UNCHANGED <<now, started, routingTable, peerstore, connectedness, providers>>

-----------------------------------------------------------------------------
(* Peers, the routing table and the address book *)

Self == "self"
Peers == {Self, "QmA", "QmB", "QmC"}
\* the other nodes: the peers the routing table holds
RemotePeers == Peers \ {Self}
\* the peer a request comes from: the handlers take p as it is given to
\* them, and nothing in them rules out this node's own identifier
Requesters == Peers
\* the peer the value requests of the model come from
ValueRequesters == {"QmA"}
Addrs == {"/ip4/10.0.0.1/tcp/4001"}
Connectednesses == {"NotConnected", "Connected", "CanConnect", "CannotConnect"}

RECURSIVE Without(_, _)
\* a list without the entries equal to p
Without(s, p) == IF s = <<>> THEN <<>>
                 ELSE IF Head(s) = p THEN Without(Tail(s), p)
                 ELSE <<Head(s)>> \o Without(Tail(s), p)

\* dht.betterPeersToQuery(pmes, p, count): the count nearest peers of the
\* routing table, the requester left out
betterPeersToQuery(rt, p, count) ==
    Without(SubSeq(rt, 1, IF Len(rt) < count THEN Len(rt) ELSE count), p)

\* pstore.PeerInfos(dht.peerstore, ids): each peer with its known addresses
PeerInfos(ps, ids) == [n \in 1 .. Len(ids) |-> [ID |-> ids[n], Addrs |-> ps[ids[n]]]]

\* pb.PeerInfosToPBPeers(dht.host.Network(), infos): one wire peer per info,
\* with the connection type the network reports
PeerInfosToPBPeers(conn, infos) ==
    [n \in 1 .. Len(infos) |->
        [id |-> infos[n].ID, addrs |-> infos[n].Addrs, connection |-> conn[infos[n].ID]]]

-----------------------------------------------------------------------------
(* handleGetValue and checkLocalDatastore *)

GetRequests == { Message("GET_VALUE", k, Nil, <<>>) : k \in Keys }

\* history: the existing record the last PUT_VALUE to k that failed with
\* "old record" lost against, with the time at which that PUT_VALUE read it,
\* when no PUT_VALUE has stored a record at k since (Nil: there is none)
LostAt(k) ==
    LET js == { j \in Handlers : /\ h[j].pc = "done" /\ h[j].type = "PUT_VALUE"
                                 /\ h[j].lost # Nil /\ h[j].lost.key = k }
    IN  IF js = {} THEN Nil
        ELSE h[CHOOSE j \in js : \A l \in js : h[l].lost.at <= h[j].lost.at].lost

\* The handler is invoked and runs up to the datastore.Get of
\* checkLocalDatastore.
handleGetValue(i, p, pmes) ==
    /\ Free(i)
    /\ started < MaxRequests
    /\ started' = started + 1
    /\ LET g == [Idle EXCEPT !.type = "GET_VALUE", !.p = p]
           k == pmes.key
       IN  IF Len(k) = 0
           THEN h' = [h EXCEPT ![i] =
                        [Returned(g, Nil, "handleGetValue but no key was provided")
                           EXCEPT !.req = pmes]]
           ELSE h' = [h EXCEPT ![i] =
                        [g EXCEPT !.pc = "datastore.Get", !.pmes = pmes,
                                  !.dskey = convertToDsKey(k),
                                  !.after = lastPut[k],
                                  !.lost = LostAt(k)]]
    /\ UNCHANGED <<datastore, stripedPutLocks, now, routingTable, peerstore,
                   connectedness, accepted, lastPut, providers>>

\* a PUT_VALUE older than MaxRecordAge at the time t is out of the reach of
\* the read that follows it
StillFresh(after, t) ==
    IF after # Nil /\ t - after.stamp > MaxRecordAge THEN Nil ELSE after

\* a record a PUT_VALUE lost against is followed up only by a read at the
\* clock time at which the PUT_VALUE read it
SameInstant(lost, t) ==
    IF lost # Nil /\ lost.at # t THEN Nil ELSE lost

\* buf, err := dht.datastore.Get(dskey) and proto.Unmarshal(buf, rec)
GetLookup(i) ==
    /\ h[i].pc = "datastore.Get"
    /\ \E err \in DatastoreErrs :
         LET buf == datastore[h[i].dskey]
             u == Unmarshal(buf)
             g == [h[i] EXCEPT !.after = StillFresh(@, now),
                               !.lost = SameInstant(@, now)]
         IN  IF err = NoErr /\ buf = NotFound
             THEN h' = [h EXCEPT ![i] = [g EXCEPT !.pc = "betterPeersToQuery"]]
             ELSE IF err # NoErr
             THEN h' = [h EXCEPT ![i] = Returned(g, Nil, err)]
             ELSE IF u.err # NoErr
             THEN h' = [h EXCEPT ![i] = Returned(g, Nil, u.err)]
             ELSE h' = [h EXCEPT ![i] = [g EXCEPT !.pc = "time.Since", !.rec = u.rec]]
    /\ UNCHANGED <<datastore, stripedPutLocks, now, started, routingTable,
                   peerstore, connectedness, accepted, lastPut, providers>>

\* (mutant) only a receipt time that does not parse makes a record bad
recordIsBadParseOnly(rec, t) == ParseRFC3339(rec.timeReceived).err # NoErr

\* recordIsBad: the receipt time does not parse, or is older than
\* MaxRecordAge at the time t
recordIsBad(rec, t) ==
    LET parsed == ParseRFC3339(rec.timeReceived)
    IN  parsed.err # NoErr \/ t - parsed.t > MaxRecordAge

\* u.ParseRFC3339(rec.GetTimeReceived()) and time.Since(recvtime) > MaxRecordAge
GetCheckAge(i) ==
    /\ h[i].pc = "time.Since"
    /\ LET g == [h[i] EXCEPT !.after = StillFresh(@, now),
                             !.lost = SameInstant(@, now)]
       IN  IF recordIsBad(h[i].rec, now)
           THEN h' = [h EXCEPT ![i] = [g EXCEPT !.pc = "datastore.Delete"]]
           ELSE h' = [h EXCEPT ![i] = [g EXCEPT !.pc = "betterPeersToQuery"]]
    /\ UNCHANGED <<datastore, stripedPutLocks, now, started, routingTable,
                   peerstore, connectedness, accepted, lastPut, providers>>

\* err := dht.datastore.Delete(dskey), its failure only logged; return nil, nil
GetDelete(i) ==
    /\ h[i].pc = "datastore.Delete"
    /\ \E err \in DatastoreErrs :
         /\ IF err = NoErr
            THEN datastore' = [datastore EXCEPT ![h[i].dskey] = NotFound]
            ELSE UNCHANGED datastore
         /\ h' = [h EXCEPT ![i].pc = "betterPeersToQuery", ![i].rec = Nil,
                           ![i].evict = IF err = NoErr THEN "deleted"
                                                       ELSE "delete failed"]
    /\ UNCHANGED <<stripedPutLocks, now, started, routingTable, peerstore,
                   connectedness, accepted, lastPut, providers>>

\* resp.Record = rec, the closer peers, return resp, nil
GetRespond(i) ==
    /\ h[i].pc = "betterPeersToQuery"
    /\ LET closer == betterPeersToQuery(routingTable, h[i].p, CloserPeerCount)
           closerinfos == PeerInfos(peerstore, closer)
           resp == Message("GET_VALUE", h[i].pmes.key, h[i].rec,
                           IF Len(closer) > 0
                           THEN PeerInfosToPBPeers(connectedness, closerinfos)
                           ELSE <<>>)
       IN  h' = [h EXCEPT ![i] = Returned(h[i], resp, NoErr)]
    /\ UNCHANGED <<datastore, stripedPutLocks, now, started, routingTable,
                   peerstore, connectedness, accepted, lastPut, providers>>

-----------------------------------------------------------------------------
(* handleFindPeer and handlePing *)

FindRequests == { Message("FIND_NODE", t, Nil, <<>>) : t \in Peers }

\* (mutant) no special case for a lookup of this node
FindClosestNoSelfCase(self, rt, conn, p, targetPid) ==
    LET closest == betterPeersToQuery(rt, p, CloserPeerCount)
    IN  IF targetPid # p /\ conn[targetPid] \in {"Connected", "CanConnect"}
        THEN Append(closest, targetPid)
        ELSE closest

\* (mutant) the target is appended only when the network is connected to it
FindClosestConnectedOnly(self, rt, conn, p, targetPid) ==
    IF targetPid = self THEN <<self>>
    ELSE LET closest == betterPeersToQuery(rt, p, CloserPeerCount)
         IN  IF targetPid # p /\ conn[targetPid] = "Connected"
             THEN Append(closest, targetPid)
             ELSE closest

\* (mutant) the target is appended even when it is the requester
FindClosestTellsRequester(self, rt, conn, p, targetPid) ==
    IF targetPid = self THEN <<self>>
    ELSE LET closest == betterPeersToQuery(rt, p, CloserPeerCount)
         IN  IF conn[targetPid] \in {"Connected", "CanConnect"}
             THEN Append(closest, targetPid)
             ELSE closest

\* the peers to answer with, before their addresses are looked up: this node
\* alone when it is the target, else the closer peers of the routing table
\* and, unless the requester asks for itself, the target when the network
\* is or can be connected to it
FindClosest(self, rt, conn, p, targetPid) ==
    IF targetPid = self THEN <<self>>
    ELSE LET closest == betterPeersToQuery(rt, p, CloserPeerCount)
         IN  IF targetPid # p /\ conn[targetPid] \in {"Connected", "CanConnect"}
             THEN Append(closest, targetPid)
             ELSE closest

\* (mutant) peers without addresses are not dropped
WithAddressesUnfiltered(infos) == infos

\* the peer infos that carry at least one address
WithAddresses(infos) ==
    LET HasAddrs(pi) == Cardinality(pi.Addrs) > 0
    IN  SelectSeq(infos, HasAddrs)

\* The whole handler: it reads the routing table, the network and the
\* peerstore and returns resp, nil.  (A nil closest and an empty one give
\* the same response, one without closer peers.)
handleFindPeer(i, p, pmes) ==
    /\ Free(i)
    /\ LET targetPid == pmes.key
           closest == FindClosest(Self, routingTable, connectedness, p, targetPid)
           closestinfos == PeerInfos(peerstore, closest)
           resp == Message("FIND_NODE", <<>>, Nil,
                           PeerInfosToPBPeers(connectedness, WithAddresses(closestinfos)))
           g == [Idle EXCEPT !.type = "FIND_NODE", !.p = p, !.req = pmes]
       IN  h' = [h EXCEPT ![i] = Returned(g, resp, NoErr)]
    /\ UNCHANGED <<datastore, stripedPutLocks, now, started, routingTable,
                   peerstore, connectedness, accepted, lastPut, providers>>

PingRequests == { Message("PING", <<>>, Nil, <<>>) }

\* handlePing: return pmes, nil
handlePing(i, p, pmes) ==
    /\ Free(i)
    /\ h' = [h EXCEPT ![i] =
                Returned([Idle EXCEPT !.type = "PING", !.p = p, !.req = pmes],
                         pmes, NoErr)]
    /\ UNCHANGED <<datastore, stripedPutLocks, now, started, routingTable,
                   peerstore, connectedness, accepted, lastPut, providers>>

-----------------------------------------------------------------------------
(* handleGetProviders and handleAddProvider *)

\* The keys of provider requests: bytes that are no content identifier, and
\* a CIDv1 (version 1, codec raw, an identity multihash with its length and
\* digest)
ProviderKeys == { <<7>>, <<1, 85, 0, 1, 9>> }

\* cid.Cast(data): a CIDv0 is the 34 bytes of a sha2-256 multihash; a CIDv1
\* is the version 1, a codec and a multihash, here an identity multihash
\* (code 0) whose length byte counts the digest that follows.  c.Bytes()
\* gives back the bytes cast.
cidCast(data) ==
    IF \/ Len(data) = 34 /\ data[1] = 18 /\ data[2] = 32
       \/ /\ Len(data) >= 4 /\ data[1] = 1 /\ data[2] < 128
          /\ data[3] = 0 /\ data[4] = Len(data) - 4
    THEN [err |-> NoErr, c |-> data]
    ELSE [err |-> "invalid cid", c |-> <<>>]

Cids == { k \in ProviderKeys : cidCast(k).err = NoErr }
ProviderDsKeys == { convertToDsKey(c) : c \in Cids }

\* the provider index without providers
NoProviders == [c \in Cids |-> <<>>]

\* a block of content in the datastore
Block == << "block" >>

\* dht.providers.AddProvider(ctx, c, p): the index holds a provider once
AddProvider(idx, c, p) ==
    IF \E n \in 1 .. Len(idx[c]) : idx[c][n] = p THEN idx
    ELSE [idx EXCEPT ![c] = Append(@, p)]

\* dht.peerstore.AddAddrs(id, addrs, ttl): the addresses join the known ones
AddAddrs(ps, id, addrs) == [ps EXCEPT ![id] = @ \cup addrs]

\* what datastore.Has may answer besides a nil error
HasErrs == {NoErr, "ds.ErrNotFound", "datastore error"}

\* (mutant) has is used as datastore.Has returned it, whatever the error
HasOrFalseKeepsHas(has, err) == has

\* has after lines 325-329: with an error other than ds.ErrNotFound, false
HasOrFalse(has, err) ==
    IF err # NoErr /\ err # "ds.ErrNotFound" THEN FALSE ELSE has

\* the peer that asks for providers, and the peers that announce them (the
\* handler compares the announced identifier with this node's own)
ProviderRequesters == {"QmC"}
Announcers == {"QmA", Self}

GetProvidersRequests == { Message("GET_PROVIDERS", k, Nil, <<>>) : k \in ProviderKeys }

\* The handler is invoked and runs up to datastore.Has: pb.NewMessage and
\* cid.Cast.
handleGetProviders(i, p, pmes) ==
    /\ Free(i)
    /\ started < MaxRequests
    /\ started' = started + 1
    /\ LET g == [Idle EXCEPT !.type = "GET_PROVIDERS", !.p = p]
           cast == cidCast(pmes.key)
       IN  IF cast.err # NoErr
           THEN h' = [h EXCEPT ![i] = [Returned(g, Nil, cast.err) EXCEPT !.req = pmes]]
           ELSE h' = [h EXCEPT ![i] =
                        [g EXCEPT !.pc = "datastore.Has", !.pmes = pmes,
                                  !.c = cast.c, !.dskey = convertToDsKey(cast.c)]]
    /\ UNCHANGED <<datastore, stripedPutLocks, now, routingTable, peerstore,
                   connectedness, accepted, lastPut, providers>>

\* has, err := dht.datastore.Has(convertToDsKey(c.Bytes())): with a nil error
\* whether the key is there, with ds.ErrNotFound false, with another error
\* whatever the datastore returns
GetProvidersHas(i) ==
    /\ h[i].pc = "datastore.Has"
    /\ \E err \in HasErrs :
         \E has \in IF err = NoErr THEN {datastore[h[i].dskey] # NotFound}
                    ELSE IF err = "ds.ErrNotFound" THEN {FALSE}
                    ELSE BOOLEAN :
           h' = [h EXCEPT ![i].pc = "providers.GetProviders",
                          ![i].has = HasOrFalse(has, err),
                          ![i].hasErr = err]
    /\ UNCHANGED <<datastore, stripedPutLocks, now, started, routingTable,
                   peerstore, connectedness, accepted, lastPut, providers>>

\* providers := dht.providers.GetProviders(ctx, c), and this node appended
\* if has
GetProvidersIndex(i) ==
    /\ h[i].pc = "providers.GetProviders"
    /\ LET indexed == providers[h[i].c]
       IN  h' = [h EXCEPT ![i].pc = "pstore.PeerInfos",
                          ![i].indexed = indexed,
                          ![i].providers = IF h[i].has THEN Append(indexed, Self)
                                                       ELSE indexed]
    /\ UNCHANGED <<datastore, stripedPutLocks, now, started, routingTable,
                   peerstore, connectedness, accepted, lastPut, providers>>

\* if there are providers: infos := pstore.PeerInfos(dht.peerstore, providers)
\* and resp.ProviderPeers, with the addresses the peerstore holds now
GetProvidersPeerInfos(i) ==
    /\ h[i].pc = "pstore.PeerInfos"
    /\ LET resp == [Message("GET_PROVIDERS", h[i].pmes.key, Nil, <<>>)
                      EXCEPT !.providerPeers =
                            IF Len(h[i].providers) > 0
                            THEN PeerInfosToPBPeers(connectedness,
                                                    PeerInfos(peerstore, h[i].providers))
                            ELSE <<>>]
       IN  h' = [h EXCEPT ![i].pc = "closer peers", ![i].resp = resp]
    /\ UNCHANGED <<datastore, stripedPutLocks, now, started, routingTable,
                   peerstore, connectedness, accepted, lastPut, providers>>

\* closer := dht.betterPeersToQuery(pmes, p, CloserPeerCount), and if there
\* are closer peers resp.CloserPeers with the addresses the peerstore holds
\* by then; return resp, nil
GetProvidersRespond(i) ==
    /\ h[i].pc = "closer peers"
    /\ LET closer == betterPeersToQuery(routingTable, h[i].p, CloserPeerCount)
           resp == [h[i].resp EXCEPT !.closerPeers =
                            IF Len(closer) > 0
                            THEN PeerInfosToPBPeers(connectedness, PeerInfos(peerstore, closer))
                            ELSE <<>>]
       IN  h' = [h EXCEPT ![i] = Returned(h[i], resp, NoErr)]
    /\ UNCHANGED <<datastore, stripedPutLocks, now, started, routingTable,
                   peerstore, connectedness, accepted, lastPut, providers>>

\* the addresses a provider announces
ProviderAddrs == {"/ip4/10.0.0.2/tcp/4001"}
\* the provider-peer records of a request: at most MaxProviderPeers, each of
\* a peer that may send the request, with or without addresses, or of
\* another peer
PBPeer(q, a) == [id |-> q, addrs |-> a, connection |-> "NotConnected"]
PBPeers == { PBPeer("QmA", {}), PBPeer("QmA", ProviderAddrs),
             PBPeer(Self, ProviderAddrs), PBPeer("QmB", ProviderAddrs) }
ProviderPeerLists == UNION { [1 .. n -> PBPeers] : n \in 0 .. MaxProviderPeers }

AddProviderRequests ==
    { [Message("ADD_PROVIDER", k, Nil, <<>>) EXCEPT !.providerPeers = pps] :
        k \in ProviderKeys, pps \in ProviderPeerLists }

\* pb.PBPeersToPeerInfos(pbps): the identifier and the addresses of each
PBPeersToPeerInfos(pbps) ==
    [n \in 1 .. Len(pbps) |-> [ID |-> pbps[n].id, Addrs |-> pbps[n].addrs]]

\* (mutant) a record of any peer with an address is taken
AnnouncedByAnyone(pi, p) == Cardinality(pi.Addrs) >= 1

\* the record is taken: it is of the requester and carries an address
AnnouncedByRequester(pi, p) == pi.ID = p /\ ~(Cardinality(pi.Addrs) < 1)

\* The handler is invoked and runs up to the loop over the records:
\* cid.Cast and pb.PBPeersToPeerInfos.
handleAddProvider(i, p, pmes) ==
    /\ Free(i)
    /\ started < MaxRequests
    /\ started' = started + 1
    /\ LET g == [Idle EXCEPT !.type = "ADD_PROVIDER", !.p = p]
           cast == cidCast(pmes.key)
       IN  IF cast.err # NoErr
           THEN h' = [h EXCEPT ![i] = [Returned(g, Nil, cast.err) EXCEPT !.req = pmes]]
           ELSE h' = [h EXCEPT ![i] =
                        [g EXCEPT !.pc = "range pinfos",
                                  !.pmes = [pmes EXCEPT !.providerPeers = <<>>],
                                  !.c = cast.c,
                                  !.pinfos = PBPeersToPeerInfos(pmes.providerPeers)]]
    /\ UNCHANGED <<datastore, stripedPutLocks, now, routingTable, peerstore,
                   connectedness, accepted, lastPut, providers>>

\* One turn of the loop up to dht.providers.AddProvider: a record of another
\* peer or without addresses is skipped; else its addresses go to the
\* peerstore unless the record is of this node.  After the last record:
\* return nil, nil.
AddProviderNext(i) ==
    /\ h[i].pc = "range pinfos"
    /\ IF h[i].pinfos = <<>>
       THEN /\ h' = [h EXCEPT ![i] = Returned(h[i], Nil, NoErr)]
            /\ UNCHANGED peerstore
       ELSE LET pi == Head(h[i].pinfos)
            IN  IF ~AnnouncedByRequester(pi, h[i].p)
                THEN /\ h' = [h EXCEPT ![i].pinfos = Tail(@),
                                       ![i].ignored = @ + 1]
                     /\ UNCHANGED peerstore
                ELSE IF pi.ID # Self
                THEN /\ peerstore' = AddAddrs(peerstore, pi.ID, pi.Addrs)
                     /\ h' = [h EXCEPT ![i].pc = "providers.AddProvider",
                                       ![i].pinfos = Tail(@),
                                       ![i].calls = Append(@, <<"AddAddrs", pi.ID, pi.Addrs>>)]
                ELSE /\ UNCHANGED peerstore
                     /\ h' = [h EXCEPT ![i].pc = "providers.AddProvider",
                                       ![i].pinfos = Tail(@)]
    /\ UNCHANGED <<datastore, stripedPutLocks, now, started, routingTable,
                   connectedness, accepted, lastPut, providers>>

\* dht.providers.AddProvider(ctx, c, p), and on to the next record
AddProviderIndex(i) ==
    /\ h[i].pc = "providers.AddProvider"
    /\ providers' = AddProvider(providers, h[i].c, h[i].p)
    /\ h' = [h EXCEPT ![i].pc = "range pinfos",
                      ![i].calls = Append(@, <<"AddProvider", h[i].c, h[i].p>>)]
    /\ UNCHANGED <<datastore, stripedPutLocks, now, started, routingTable,
                   peerstore, connectedness, accepted, lastPut>>

-----------------------------------------------------------------------------
(* The clock and the request contexts *)

\* the context of a running request is cancelled or times out; no handler
\* reads its context after logger.Start
CtxCancel(i) ==
    /\ Running(i)
    /\ ~h[i].ctxDone
    /\ h' = [h EXCEPT ![i].ctxDone = TRUE]
    /\ UNCHANGED <<datastore, stripedPutLocks, now, started, routingTable,
                   peerstore, connectedness, accepted, lastPut, providers>>

Tick ==
    /\ now < MaxTime
    /\ now' = now + 1
    /\ UNCHANGED <<datastore, stripedPutLocks, h, started, routingTable,
                   peerstore, connectedness, accepted, lastPut, providers>>

-----------------------------------------------------------------------------
(***************************************************************************)
(* The datastore when the node starts.  It outlives the node: besides    *)
(* being empty it may hold, at one key, a record the node stored more      *)
(* than MaxRecordAge ago, a record without a parsable receipt time, a      *)
(* record the validator rejects by now, or bytes that are no record.       *)
(***************************************************************************)

LegacyKey == <<7>>
LegacyBlobs == { Marshal(Record(LegacyKey, MaxSeq, FormatRFC3339(0 - (MaxRecordAge + 1)))),
                 Marshal(Record(LegacyKey, 0, JunkString)),
                 Marshal(Record(LegacyKey, InvalidValue, FormatRFC3339(0))),
                 Garbage }

EmptyDatastore == [d \in DsKeys |-> NotFound]

InitNode ==
    /\ stripedPutLocks = {}
    /\ now = 0
    /\ h = [i \in Handlers |-> Idle]
    /\ started = 0
    /\ accepted = [k \in Keys |-> {}]
    /\ lastPut = [k \in Keys |-> Nil]

Init ==
    /\ InitNode
    /\ datastore \in {EmptyDatastore} \cup
           { [EmptyDatastore EXCEPT ![convertToDsKey(LegacyKey)] = b] : b \in LegacyBlobs }
    /\ routingTable = <<"QmA", "QmB", "QmC">>
    /\ peerstore = [q \in Peers |-> IF q = "QmB" THEN {} ELSE Addrs]
    /\ connectedness = [q \in Peers |-> IF q = "QmA" THEN "Connected" ELSE "NotConnected"]
    /\ providers = NoProviders

Next ==
    \/ \E i \in Handlers, pmes \in PutRequests : handlePutValue(i, pmes)
    \/ \E i \in Handlers : PutLock(i)
    \/ \E i \in Handlers : PutGetExisting(i)
    \/ \E i \in Handlers : PutSelect(i)
    \/ \E i \in Handlers : PutStore(i)
    \/ \E i \in Handlers, p \in ValueRequesters, pmes \in GetRequests : handleGetValue(i, p, pmes)
    \/ \E i \in Handlers : GetLookup(i)
    \/ \E i \in Handlers : GetCheckAge(i)
    \/ \E i \in Handlers : GetDelete(i)
    \/ \E i \in Handlers : GetRespond(i)
    \/ Tick

Spec == Init /\ [][Next]_vars

\* PUT_VALUE handlers whose request context may be cancelled while they run
NextCancel ==
    \/ \E i \in Handlers, pmes \in PutRequests : handlePutValue(i, pmes)
    \/ \E i \in Handlers : PutLock(i)
    \/ \E i \in Handlers : PutGetExisting(i)
    \/ \E i \in Handlers : PutSelect(i)
    \/ \E i \in Handlers : PutStore(i)
    \/ \E i \in Handlers : CtxCancel(i)

SpecCancel == Init /\ [][NextCancel]_vars

\* PUT_VALUE handlers alone, under a fair scheduler: a goroutine that can
\* take a step takes it (the collaborators return), and a goroutine waiting
\* at lk.Lock() gets the mutex if it is free again and again (sync.Mutex
\* hands the mutex to a starving waiter)
NextPut ==
    \/ \E i \in Handlers, pmes \in PutRequests : handlePutValue(i, pmes)
    \/ \E i \in Handlers : PutLock(i)
    \/ \E i \in Handlers : PutGetExisting(i)
    \/ \E i \in Handlers : PutSelect(i)
    \/ \E i \in Handlers : PutStore(i)

FairPut ==
    \A i \in Handlers :
        /\ SF_vars(PutLock(i))
        /\ WF_vars(PutGetExisting(i))
        /\ WF_vars(PutSelect(i))
        /\ WF_vars(PutStore(i))

SpecPutFair == Init /\ [][NextPut]_vars /\ FairPut

\* FIND_NODE and PING over every routing table, address book and network
RoutingTables ==
    { rt \in UNION { [1 .. n -> RemotePeers] : n \in 0 .. Cardinality(RemotePeers) } :
        \A a, b \in 1 .. Len(rt) : a # b => rt[a] # rt[b] }

InitFind ==
    /\ InitNode
    /\ datastore = EmptyDatastore
    /\ routingTable \in RoutingTables
    /\ peerstore \in [Peers -> {{}, Addrs}]
    /\ connectedness \in { c \in [Peers -> Connectednesses] : c[Self] = "NotConnected" }
    /\ providers = NoProviders

NextFind ==
    \/ \E i \in Handlers, p \in Requesters, pmes \in FindRequests : handleFindPeer(i, p, pmes)
    \/ \E i \in Handlers, p \in Requesters, pmes \in PingRequests : handlePing(i, p, pmes)

SpecFind == InitFind /\ [][NextFind]_vars

\* GET_PROVIDERS and ADD_PROVIDER over a datastore that holds the content or
\* not and a provider index with or without a provider
InitProviders ==
    /\ InitNode
    /\ datastore \in [ProviderDsKeys -> {NotFound, Block}]
    /\ routingTable = <<"QmA", "QmB", "QmC">>
    /\ peerstore = [q \in Peers |-> IF q \in {"QmA", "QmB"} THEN {} ELSE Addrs]
    /\ connectedness = [q \in Peers |-> IF q = "QmA" THEN "Connected" ELSE "NotConnected"]
    /\ providers \in [Cids -> {<<>>, <<"QmB">>}]

NextProviders ==
    \/ \E i \in Handlers, p \in ProviderRequesters, pmes \in GetProvidersRequests :
          handleGetProviders(i, p, pmes)
    \/ \E i \in Handlers : GetProvidersHas(i)
    \/ \E i \in Handlers : GetProvidersIndex(i)
    \/ \E i \in Handlers : GetProvidersPeerInfos(i)
    \/ \E i \in Handlers : GetProvidersRespond(i)
    \/ \E i \in Handlers, p \in Announcers, pmes \in AddProviderRequests :
          handleAddProvider(i, p, pmes)
    \/ \E i \in Handlers : AddProviderNext(i)
    \/ \E i \in Handlers : AddProviderIndex(i)

SpecProviders == InitProviders /\ [][NextProviders]_vars

-----------------------------------------------------------------------------
(* Properties *)

\* handler i is invoked in this step (a handler that has returned changes
\* in no other way, but for its history field lost)
Invoked(i) == /\ ~Running(i)
              /\ [h'[i] EXCEPT !.lost = Nil] # [h[i] EXCEPT !.lost = Nil]
\* handler i returns in this step
Returns(i) == Running(i) /\ h'[i].pc = "done"
\* handler i holds its striped lock
InCritical(i) ==
    h[i].pc \in {"getRecordFromDatastore", "Validator.Select", "datastore.Put"}
\* the record a datastore entry holds for conflict resolution: what parses
\* and validates
StoredRecord(buf) == getRecordFromDatastore(buf, NoErr).rec
\* the trailing byte of a key, 0 for the empty key
LastByte(k) == IF k = <<>> THEN 0 ELSE k[Len(k)]
\* a receipt time that is missing, unparsable or older than MaxRecordAge at t
ReceiptTimeTooOld(rec, t) ==
    \/ rec.timeReceived.text # "rfc3339"
    \/ t - rec.timeReceived.instant > MaxRecordAge
\* C1 (as claimed): a PUT_VALUE never persists a value at a key when Select
\* would choose a value accepted at that key before over it.
C1_PreferredOverAllAccepted ==
    [][\A i \in Handlers :
         (h[i].pc = "datastore.Put" /\ h'[i].wrote)
         => \A w \in accepted[h[i].pmes.key] :
              Select(h[i].pmes.key, <<h[i].pmes.record.value, w>>) = 0]_vars

\* C1 (amended): a PUT_VALUE never persists a value at a key when Select
\* would choose the valid record stored at that key at the time of the write
\* over it: a stored value is only replaced by one Select prefers over it.
C1_PreferredOverStored ==
    [][\A i \in Handlers :
         (h[i].pc = "datastore.Put" /\ h'[i].wrote)
         => LET stored == StoredRecord(datastore[h[i].dskey])
            IN  stored # Nil
                => Select(h[i].pmes.key, <<h[i].pmes.record.value, stored.value>>) = 0]_vars

\* C1 witness: a PUT_VALUE has replaced a valid record by a different value
C1_Witness ==
    \E i \in Handlers :
        /\ h[i].pc = "done" /\ h[i].wrote /\ h[i].existing # Nil
        /\ h[i].existing.value < h[i].resp.record.value
        /\ datastore[convertToDsKey(h[i].resp.key)] = Marshal(h[i].resp.record)

\* C2: when Select prefers the existing record (one stored with its
\* receipt time) over the incoming one, the PUT_VALUE fails with "old
\* record" and no response and leaves the datastore unchanged; and a
\* GET_VALUE for the key that is invoked after the PUT_VALUE returned, with
\* no record stored at the key since, and that reads the datastore at the
\* clock time at which the PUT_VALUE read the existing record, answers with
\* the existing value.
C2_OldRecordKeepsExistingReadable ==
    /\ [][\A i \in Handlers :
            ( /\ h[i].pc = "Validator.Select" /\ Returns(i)
              /\ h[i].existing # Nil
              /\ h[i].existing.timeReceived.text = "rfc3339"
              /\ h'[i].err # "select error"
              /\ Select(h[i].pmes.key,
                        <<h[i].pmes.record.value, h[i].existing.value>>) = 1 )
            => /\ h'[i].err = "old record" /\ h'[i].resp = Nil /\ ~h'[i].wrote
               /\ datastore' = datastore]_vars
    /\ [](\A i \in Handlers :
            ( /\ h[i].pc = "done" /\ h[i].type = "GET_VALUE"
              /\ h[i].err = NoErr /\ h[i].lost # Nil )
            => /\ h[i].resp.record # Nil
               /\ h[i].resp.record.value = h[i].lost.rec.value)

\* the request of the PUT_VALUE handler i invoked in this step
InvokedWith(i) == IF h'[i].pc = "done" THEN h'[i].req ELSE h'[i].pmes

\* C3: a PUT_VALUE without a record, or with a record whose key is not the
\* key of the message, returns an error and no response at once; it changes
\* nothing in the datastore and takes no striped lock.
C3_MalformedPutRejected ==
    [][\A i \in Handlers :
         ( /\ Invoked(i) /\ h'[i].type = "PUT_VALUE"
           /\ \/ InvokedWith(i).record = Nil
              \/ InvokedWith(i).record.key # InvokedWith(i).key )
         => /\ h'[i].pc = "done"
            /\ h'[i].resp = Nil
            /\ h'[i].err = IF InvokedWith(i).record = Nil
                           THEN "nil record"
                           ELSE "put key doesn't match record key"
            /\ ~h'[i].wrote
            /\ datastore' = datastore
            /\ stripedPutLocks' = stripedPutLocks]_vars

\* C3 witness: both kinds of malformed PUT_VALUE have been rejected, on a
\* datastore that holds a record
C3_Witness ==
    /\ \E i \in Handlers :
          /\ h[i].pc = "done" /\ h[i].type = "PUT_VALUE"
          /\ h[i].req # Nil /\ h[i].req.record = Nil
          /\ h[i].err = "nil record"
    /\ \E i \in Handlers :
          /\ h[i].pc = "done" /\ h[i].type = "PUT_VALUE"
          /\ h[i].req # Nil /\ h[i].req.record # Nil
          /\ h[i].req.record.key # h[i].req.key
          /\ h[i].err = "put key doesn't match record key"
    /\ \E d \in DsKeys : datastore[d] # NotFound

\* C4: PUT_VALUE handlers between lk.Lock() and their return hold exactly
\* the locks of the trailing bytes of their keys (0 for the empty key), so
\* two of them never have keys with the same trailing byte; and a handler at
\* lk.Lock() can take its lock whenever no handler in that region has a key
\* with the same trailing byte.
C4_StripedLocking ==
    /\ \A i, j \in Handlers :
          (i # j /\ InCritical(i) /\ InCritical(j))
          => LastByte(h[i].pmes.key) # LastByte(h[j].pmes.key)
    /\ stripedPutLocks = { LastByte(h[i].pmes.key) : i \in {j \in Handlers : InCritical(j)} }
    /\ \A i \in Handlers :
          ( /\ h[i].pc = "lk.Lock"
            /\ \A j \in Handlers :
                 InCritical(j) => LastByte(h[j].pmes.key) # LastByte(h[i].pmes.key) )
          => ENABLED PutLock(i)

\* C4 witness: a PUT_VALUE waits at lk.Lock() for another one that holds the
\* lock for a different key with the same trailing byte
C4_Witness ==
    \E i, j \in Handlers :
        /\ InCritical(i) /\ h[j].pc = "lk.Lock"
        /\ h[i].pmes.key # h[j].pmes.key
        /\ LastByte(h[i].pmes.key) = LastByte(h[j].pmes.key)
        /\ ~ENABLED PutLock(j)

\* C5: a GET_VALUE invoked after a successful PUT_VALUE of (k, v), handled
\* within MaxRecordAge of its receipt time and with no other successful
\* PUT_VALUE to k in between, answers with a record of value v.
C5_ReadAfterWrite ==
    \A i \in Handlers :
        ( /\ h[i].pc = "done" /\ h[i].type = "GET_VALUE"
          /\ h[i].err = NoErr /\ h[i].after # Nil )
        => /\ h[i].resp.record # Nil
           /\ h[i].resp.record.value = h[i].after.value

\* C6 (as claimed): a GET_VALUE that found a record with a receipt time
\* that is missing, unparsable or older than MaxRecordAge returns a response
\* without a record, and when it returns the datastore no longer holds the
\* key.
C6_StaleGoneAfterGet ==
    [][\A i \in Handlers :
         (h[i].type = "GET_VALUE" /\ Returns(i) /\ h[i].evict # "none")
         => /\ h'[i].err = NoErr /\ h'[i].resp # Nil /\ h'[i].resp.record = Nil
            /\ datastore'[h[i].dskey] = NotFound]_vars

\* C6 (amended): a GET_VALUE that reads a record with a receipt time that is
\* missing, unparsable or older than MaxRecordAge issues a Delete for the
\* key and returns a response without a record; the key is absent from the
\* datastore when that Delete succeeds, and the datastore is as it was when
\* the Delete fails.
C6_StaleEvictedBestEffort ==
    [][\A i \in Handlers :
         /\ (h[i].pc = "time.Since" /\ h'[i].pc # h[i].pc)
            => IF ReceiptTimeTooOld(h[i].rec, now)
               THEN h'[i].pc = "datastore.Delete"
               ELSE h'[i].pc = "betterPeersToQuery" /\ h'[i].rec = h[i].rec
         /\ (h[i].pc = "datastore.Delete" /\ h'[i].pc # h[i].pc)
            => /\ h'[i].rec = Nil
               /\ h'[i].evict \in {"deleted", "delete failed"}
               /\ h'[i].evict = "deleted" => datastore'[h[i].dskey] = NotFound
               /\ h'[i].evict = "delete failed" => datastore' = datastore
         /\ (h[i].type = "GET_VALUE" /\ Returns(i) /\ h[i].evict # "none")
            => h'[i].err = NoErr /\ h'[i].resp # Nil /\ h'[i].resp.record = Nil]_vars

\* C6 witness: a GET_VALUE has returned without a record after deleting a
\* record older than MaxRecordAge that a PUT_VALUE had stored, and the key
\* is gone
C6_Witness ==
    \E i \in Handlers :
        /\ h[i].pc = "done" /\ h[i].type = "GET_VALUE" /\ h[i].evict = "deleted"
        /\ h[i].err = NoErr /\ h[i].resp.record = Nil
        /\ lastPut[h[i].resp.key] # Nil
        /\ now - lastPut[h[i].resp.key].stamp > MaxRecordAge
        /\ datastore[convertToDsKey(h[i].resp.key)] = NotFound

\* C7: a handler that has returned has returned a response or an error, and
\* not both.
C7_ResponseOrFailure ==
    \A i \in Handlers :
        h[i].pc = "done" => ((h[i].resp # Nil) # (h[i].err # NoErr))

\* C8: a PUT_VALUE whose context was cancelled before its datastore.Put
\* returns no response and has persisted nothing.
C8_CancelledPutPersistsNothing ==
    \A i \in Handlers :
        (h[i].pc = "done" /\ h[i].type = "PUT_VALUE" /\ h[i].cancelledBeforePut)
        => h[i].resp = Nil /\ ~h[i].wrote

\* the FIND_NODE handlers that have returned
FoundBy(i) == h[i].pc = "done" /\ h[i].type = "FIND_NODE"
\* the identifiers of the closer peers of a response
CloserIds(resp) == [n \in 1 .. Len(resp.closerPeers) |-> resp.closerPeers[n].id]

\* C9 (as claimed): a FIND_NODE for this node's own identifier answers with
\* exactly this node, whatever the routing table and the address book hold.
C9_SelfLookupReturnsSelf ==
    \A i \in Handlers :
        (FoundBy(i) /\ h[i].req.key = Self)
        => h[i].err = NoErr /\ CloserIds(h[i].resp) = <<Self>>

\* C9 (amended): a FIND_NODE for this node's own identifier answers,
\* whatever the routing table holds, with exactly this node and its
\* addresses when the address book has an address of this node, and with
\* no closer peer when it has none.
C9_SelfLookupReturnsSelfIfAddressed ==
    \A i \in Handlers :
        (FoundBy(i) /\ h[i].req.key = Self)
        => /\ h[i].err = NoErr
           /\ IF peerstore[Self] # {}
              THEN /\ CloserIds(h[i].resp) = <<Self>>
                   /\ h[i].resp.closerPeers[1].addrs = peerstore[Self]
              ELSE h[i].resp.closerPeers = <<>>

\* C9 witness: a FIND_NODE for this node was answered with this node alone
\* while the routing table holds other peers that have addresses
C9_Witness ==
    \E i \in Handlers :
        /\ FoundBy(i) /\ h[i].req.key = Self
        /\ CloserIds(h[i].resp) = <<Self>>
        /\ Len(routingTable) = Cardinality(RemotePeers)
        /\ \A q \in RemotePeers : peerstore[q] # {}

Addressed(ids) == LET Known(q) == peerstore[q] # {} IN SelectSeq(ids, Known)

\* C13: a FIND_NODE always returns a response and no error; every closer
\* peer of the response has an address in the address book, the closer
\* peers being the peers the handler chose (this node, or the routing
\* table's candidates and the connected target) without those that have no
\* address, possibly none at all.
C13_CloserPeersHaveAddresses ==
    \A i \in Handlers :
        FoundBy(i)
        => /\ h[i].err = NoErr /\ h[i].resp # Nil
           /\ \A n \in 1 .. Len(h[i].resp.closerPeers) :
                 /\ h[i].resp.closerPeers[n].addrs # {}
                 /\ h[i].resp.closerPeers[n].addrs = peerstore[h[i].resp.closerPeers[n].id]
           /\ CloserIds(h[i].resp) =
                 Addressed(FindClosest(Self, routingTable, connectedness,
                                       h[i].p, h[i].req.key))

\* C13 witness: a FIND_NODE found two peers and answered with the one that
\* has an address, dropping the other
C13_Witness ==
    \E i \in Handlers :
        /\ FoundBy(i) /\ h[i].err = NoErr /\ Len(h[i].resp.closerPeers) = 1
        /\ Len(FindClosest(Self, routingTable, connectedness, h[i].p, h[i].req.key)) = 2

\* C18: for a FIND_NODE whose target is neither this node nor the
\* requester: a target the network reports Connected or CanConnect and that
\* has an address is the last closer peer of the response, whatever the
\* routing table holds; with any other report the closer peers are the
\* routing table's candidates alone.
C18_ConnectedTargetAppended ==
    \A i \in Handlers :
        (FoundBy(i) /\ h[i].req.key \notin {Self, h[i].p})
        => LET t == h[i].req.key
               ids == CloserIds(h[i].resp)
               candidates == betterPeersToQuery(routingTable, h[i].p, CloserPeerCount)
           IN  IF connectedness[t] \in {"Connected", "CanConnect"}
               THEN /\ ids = Addressed(Append(candidates, t))
                    /\ peerstore[t] # {} => (ids # <<>> /\ ids[Len(ids)] = t)
               ELSE ids = Addressed(candidates)

\* C18 witness: with an empty routing table, a target that is only
\* CanConnect is the one closer peer of the response
C18_Witness ==
    \E i \in Handlers :
        /\ FoundBy(i) /\ h[i].req.key \notin {Self, h[i].p}
        /\ routingTable = <<>>
        /\ connectedness[h[i].req.key] = "CanConnect"
        /\ CloserIds(h[i].resp) = <<h[i].req.key>>

\* C14: a PUT_VALUE whose record (of the key of the message) the validator
\* rejects returns the validator's error and no response at once; it changes
\* nothing in the datastore and takes no striped lock, so it never waits for
\* another PUT_VALUE nor makes one wait.
C14_InvalidPutRejectedBeforeLock ==
    [][\A i \in Handlers :
         ( /\ Invoked(i) /\ h'[i].type = "PUT_VALUE"
           /\ InvokedWith(i).record # Nil
           /\ InvokedWith(i).record.key = InvokedWith(i).key
           /\ Validate(InvokedWith(i).key, InvokedWith(i).record.value) # NoErr )
         => /\ h'[i].pc = "done"
            /\ h'[i].resp = Nil
            /\ h'[i].err = Validate(InvokedWith(i).key, InvokedWith(i).record.value)
            /\ ~h'[i].wrote
            /\ datastore' = datastore
            /\ stripedPutLocks' = stripedPutLocks]_vars

\* C14 witness: a PUT_VALUE was rejected by the validator and has returned
\* while another PUT_VALUE holds the striped lock of its key
C14_Witness ==
    \E i, j \in Handlers :
        /\ h[i].pc = "done" /\ h[i].type = "PUT_VALUE"
        /\ h[i].req # Nil /\ h[i].req.record # Nil
        /\ h[i].req.record.key = h[i].req.key
        /\ h[i].req.record.value = InvalidValue
        /\ h[i].err = "invalid record" /\ h[i].resp = Nil
        /\ InCritical(j) /\ LastByte(h[j].pmes.key) = LastByte(h[i].req.key)
        /\ LastByte(h[i].req.key) \in stripedPutLocks

\* an existing record older than MaxRecordAge at the time t
OlderThanMaxRecordAge(rec, t) ==
    /\ rec.timeReceived.text = "rfc3339"
    /\ t - rec.timeReceived.instant > MaxRecordAge

\* C15: a stored record older than MaxRecordAge counts as absent for every
\* handler: a GET_VALUE that reads it goes on to evict it and answers
\* without a record, and a PUT_VALUE is not rejected with "old record" on
\* account of an existing record older than MaxRecordAge.
C15_StaleRecordIsAbsent ==
    [][\A i \in Handlers :
         /\ ( /\ h[i].pc = "time.Since" /\ h'[i].pc # h[i].pc
              /\ OlderThanMaxRecordAge(h[i].rec, now) )
            => h'[i].pc = "datastore.Delete"
         /\ ( /\ h[i].pc = "datastore.Delete" /\ h'[i].pc # h[i].pc )
            => h'[i].rec = Nil
         /\ ( /\ h[i].pc = "Validator.Select" /\ h'[i] # h[i]
              /\ h[i].existing # Nil
              /\ OlderThanMaxRecordAge(h[i].existing, now) )
            => h'[i].err # "old record"]_vars

\* the bytes at the key of PUT_VALUE handler i are not usable as an existing
\* record: nothing is stored, or what is stored is no record, or a record the
\* validator rejects
ExistingUnusable(buf) ==
    \/ buf = NotFound
    \/ Unmarshal(buf).err # NoErr
    \/ Validate(Unmarshal(buf).rec.key, Unmarshal(buf).rec.value) # NoErr

\* C16: in the conflict resolution of a PUT_VALUE, a datastore entry that is
\* not found, is no record or is a record the validator rejects gives no
\* existing record: Select is not run (no Select error, no "old record"),
\* the incoming record goes on to datastore.Put and a successful Put
\* overwrites the entry; a datastore error of the Get makes the handler
\* return that error without a response, the datastore unchanged.
C16_UnusableExistingIsOverwritten ==
    [][\A i \in Handlers :
         /\ (h[i].pc = "getRecordFromDatastore" /\ h'[i] # h[i])
            => LET buf == datastore[h[i].dskey]
               IN  IF h'[i].pc = "done"
                   THEN /\ h'[i].err = "datastore error" /\ h'[i].resp = Nil
                        /\ ~h'[i].wrote /\ datastore' = datastore
                   ELSE /\ h'[i].pc = "Validator.Select"
                        /\ h'[i].existing = IF ExistingUnusable(buf) THEN Nil
                                            ELSE Unmarshal(buf).rec
         /\ (h[i].pc = "Validator.Select" /\ h'[i] # h[i] /\ h[i].existing = Nil)
            => \/ /\ h'[i].pc = "datastore.Put"
                  /\ h'[i].data = Marshal(h'[i].pmes.record)
                  /\ h'[i].pmes.record.value = h[i].pmes.record.value
                  /\ h'[i].pmes.record.key = h[i].pmes.key
               \/ h'[i].pc = "done" /\ h'[i].err = "marshal error"
         /\ (h[i].pc = "datastore.Put" /\ h[i].existing = Nil /\ h'[i].wrote)
            => /\ datastore'[h[i].dskey] = h[i].data
               /\ h'[i].err = NoErr]_vars

\* C16 witness: a PUT_VALUE is about to overwrite a datastore entry that is
\* no record, or a record the validator rejects, having found no existing
\* record
C16_Witness ==
    \E i \in Handlers :
        /\ h[i].pc = "datastore.Put" /\ h[i].existing = Nil
        /\ datastore[h[i].dskey] # NotFound
        /\ ExistingUnusable(datastore[h[i].dskey])

\* C17: the receipt time of a record handlePutValue persists is the clock
\* of the node read by the handler before it serialises and stores the
\* record, whatever receipt time the request carried: the time stamped is
\* the time of the clock at that step, and the record stored carries it.
C17_ReceiptTimeIsServerTime ==
    [][\A i \in Handlers :
         /\ (h[i].pc = "Validator.Select" /\ h'[i].pc = "datastore.Put")
            => /\ h'[i].pmes.record.timeReceived = FormatRFC3339(now)
               /\ h'[i].data = Marshal(h'[i].pmes.record)
         /\ (h[i].pc = "datastore.Put" /\ h'[i].wrote)
            => LET stored == Unmarshal(datastore'[h[i].dskey]).rec
               IN  /\ stored.timeReceived = h[i].pmes.record.timeReceived
                   /\ stored.timeReceived.text = "rfc3339"
                   /\ stored.timeReceived.instant \in 0 .. now
                   /\ stored.timeReceived \notin ClientStamps]_vars

\* C17 witness: a PUT_VALUE has persisted its record after the clock has
\* moved, and the record stored carries the time of the clock
C17_Witness ==
    \E i \in Handlers :
        /\ h[i].pc = "done" /\ h[i].type = "PUT_VALUE" /\ h[i].wrote
        /\ now > 0
        /\ datastore[convertToDsKey(h[i].resp.key)] = Marshal(h[i].resp.record)
        /\ h[i].resp.record.timeReceived = FormatRFC3339(now)

\* C19: the Delete of a GET_VALUE never removes from the datastore the
\* record a successful PUT_VALUE stored less than MaxRecordAge ago.
C19_DeleteRemovesOnlyStale ==
    [][\A i \in Handlers :
         ( /\ h[i].pc = "datastore.Delete" /\ h'[i].pc # h[i].pc
           /\ lastPut[h[i].pmes.key] # Nil
           /\ datastore[h[i].dskey] =
                Marshal(Record(h[i].pmes.key, lastPut[h[i].pmes.key].value,
                               FormatRFC3339(lastPut[h[i].pmes.key].stamp)))
           /\ now - lastPut[h[i].pmes.key].stamp <= MaxRecordAge )
         => datastore'[h[i].dskey] = datastore[h[i].dskey]]_vars

\* the identifiers of the provider peers of a response
ProviderIds(resp) == [n \in 1 .. Len(resp.providerPeers) |-> resp.providerPeers[n].id]

\* C11: a GET_PROVIDERS for a content identifier always returns a response
\* and no error; its provider peers are the providers the provider index
\* returned, followed by this node when datastore.Has reported the content
\* present, and those of the index alone when datastore.Has reported it
\* absent or failed with ds.ErrNotFound or any other error.
C11_SelfProvidesWhatItHas ==
    \A i \in Handlers :
        (h[i].pc = "done" /\ h[i].type = "GET_PROVIDERS")
        => IF h[i].resp = Nil
           THEN cidCast(h[i].req.key).err # NoErr /\ h[i].err # NoErr
           ELSE /\ h[i].err = NoErr
                /\ LET present ==
                         datastore[convertToDsKey(h[i].resp.key)] # NotFound
                   IN  ProviderIds(h[i].resp) =
                         IF h[i].hasErr = NoErr /\ present
                         THEN Append(h[i].indexed, Self)
                         ELSE h[i].indexed

\* C11 witness: a GET_PROVIDERS answered with the provider the index held,
\* the provider an ADD_PROVIDER announced, and this node, which has the
\* content
C11_Witness ==
    \E i \in Handlers :
        /\ h[i].pc = "done" /\ h[i].type = "GET_PROVIDERS"
        /\ h[i].err = NoErr /\ h[i].hasErr = NoErr
        /\ ProviderIds(h[i].resp) = <<"QmB", "QmA", Self>>

\* C12: an ADD_PROVIDER handles each provider-peer record once: a record of
\* another peer than the requester p, or without addresses, changes neither
\* the provider index nor the address book; a record of p with an address
\* leads to one AddProvider(c, p), after its addresses have been merged into
\* the address book unless it is the record of this node; after the last
\* record the handler returns.  Nothing else changes the provider index.
C12_OnlyRequesterRecordsAreIndexed ==
    [][/\ \A i \in Handlers :
            /\ (h[i].pc = "range pinfos" /\ h'[i] # h[i] /\ h[i].pinfos # <<>>)
               => LET pi == Head(h[i].pinfos)
                  IN  /\ h'[i].pinfos = Tail(h[i].pinfos)
                      /\ providers' = providers
                      /\ IF pi.ID = h[i].p /\ pi.Addrs # {}
                         THEN /\ h'[i].pc = "providers.AddProvider"
                              /\ peerstore' =
                                   IF pi.ID # Self
                                   THEN [peerstore EXCEPT ![pi.ID] = @ \cup pi.Addrs]
                                   ELSE peerstore
                         ELSE /\ h'[i].pc = "range pinfos"
                              /\ peerstore' = peerstore
            /\ (h[i].pc = "range pinfos" /\ h'[i] # h[i] /\ h[i].pinfos = <<>>)
               => /\ h'[i].pc = "done" /\ h'[i].resp = Nil /\ h'[i].err = NoErr
                  /\ providers' = providers /\ peerstore' = peerstore
            /\ (h[i].pc = "providers.AddProvider" /\ h'[i] # h[i])
               => /\ \E n \in 1 .. Len(providers'[h[i].c]) :
                        providers'[h[i].c][n] = h[i].p
                  /\ \A n \in 1 .. Len(providers'[h[i].c]) :
                        \/ providers'[h[i].c][n] = h[i].p
                        \/ \E m \in 1 .. Len(providers[h[i].c]) :
                              providers[h[i].c][m] = providers'[h[i].c][n]
                  /\ \A d \in Cids \ {h[i].c} : providers'[d] = providers[d]
                  /\ peerstore' = peerstore
                  /\ h'[i].pc = "range pinfos"
       /\ (\A i \in Handlers : ~(h[i].pc = "providers.AddProvider" /\ h'[i] # h[i]))
          => providers' = providers]_vars

\* C12 witness: an ADD_PROVIDER of a peer has returned after ignoring one
\* provider-peer record and taking another: the addresses of the peer are in
\* the address book and the peer is a provider of the content
C12_Witness ==
    \E i \in Handlers, c \in Cids :
        /\ h[i].pc = "done" /\ h[i].type = "ADD_PROVIDER" /\ h[i].p = "QmA"
        /\ h[i].ignored = 1
        /\ h[i].calls = << <<"AddAddrs", "QmA", ProviderAddrs>>,
                           <<"AddProvider", c, "QmA">> >>
        /\ peerstore["QmA"] = ProviderAddrs
        /\ providers[c] \in { <<"QmA">>, <<"QmB", "QmA">> }

\* C20: a PUT_VALUE handler that returns after lk.Lock(), on whatever path
\* (datastore Get error, Select error, "old record", marshal error, Put
\* error, success), leaves its striped lock unlocked, and no lock is held
\* but by a handler between lk.Lock() and its return; under a fair
\* scheduler every PUT_VALUE that waits at lk.Lock() gets the lock and
\* returns.
C20_LockReleasedAndPutCompletes ==
    /\ [][\A i \in Handlers :
            (InCritical(i) /\ h'[i].pc = "done")
            => h[i].indexForLock \notin stripedPutLocks']_vars
    /\ [](\A x \in stripedPutLocks :
            \E i \in Handlers : InCritical(i) /\ h[i].indexForLock = x)
    /\ \A i \in Handlers :
          (h[i].pc = "lk.Lock") ~> (h[i].pc = "done" /\ stripedPutLocks = {})

\* C20 witness: a PUT_VALUE has failed with "old record" while it held the
\* striped lock, and another PUT_VALUE for a key of the same stripe holds
\* that lock now
C20_Witness ==
    \E i, j \in Handlers :
        /\ h[i].pc = "done" /\ h[i].type = "PUT_VALUE"
        /\ h[i].err = "old record"
        /\ InCritical(j) /\ h[j].indexForLock = 7
        /\ stripedPutLocks = {7}

====
